---------------------------- MODULE Spec2Model ----------------------------
(***************************************************************************)
(* A model of imgrs (src/src/main.rs, src/src/terminal.rs):                *)
(*   - escape_frames: the row encoder, one thread per row pair, results    *)
(*     gathered over an mpsc channel and stored by row-pair index;         *)
(*   - print_frames: the playback controller, with the terminal state      *)
(*     guard (TermState), the ctrl-c flag and the animation loop;          *)
(*   - main: read_input, decode_image, scale_frames and the calls of the   *)
(*     two above.                                                          *)
(* A Rust String is modelled as the sequence of the pieces pushed onto it  *)
(* (one element per push_str / push); its bytes are their concatenation.   *)
(* ESC (0x1b) is written "<ESC>", the glyph U+2584 "<U+2584>" and the      *)
(* backquote "<BQ>".                                                       *)
(***************************************************************************)
EXTENDS Integers, Sequences, FiniteSets, TLC

(* ------------------------------ bounds -------------------------------- *)
MaxW == 2
MaxH == 5
MaxFrames == 2

(* ----------------------------- constants ------------------------------ *)
ESC == "<ESC>"
HALF_BLOCK == "<U+2584>"
ANSI_CURSOR_UP == ESC \o "[{}A"
ANSI_CURSOR_HIDE == ESC \o "[?25l"
ANSI_CURSOR_SHOW == ESC \o "[?25h"
ANSI_BG_TRANSPARENT_COLOR == ESC \o "[0;39;49m"
ANSI_BG_RGB_COLOR == ESC \o "[48;2;{};{};{}m"
ANSI_FG_TRANSPARENT_COLOR == ESC \o "[0m "
ANSI_FG_RGB_COLOR == ESC \o "[38;2;{};{};{}m" \o HALF_BLOCK
ANSI_RESET == ESC \o "[0m"
ALPHA_THRESHOLD == 128

(* --------------------------- formatting ------------------------------- *)
\* Display of one decimal digit.
Digit(d) ==
    CASE d = 0 -> "0" [] d = 1 -> "1" [] d = 2 -> "2" [] d = 3 -> "3"
      [] d = 4 -> "4" [] d = 5 -> "5" [] d = 6 -> "6" [] d = 7 -> "7"
      [] d = 8 -> "8" [] d = 9 -> "9"

\* Display of an unsigned integer (u8, usize): decimal, no padding.
RECURSIVE Dec(_)
Dec(n) == IF n < 10 THEN Digit(n) ELSE Dec(n \div 10) \o Digit(n % 10)

\* format!("{} {} {} {}", t, r, g, b): the four arguments, each displayed,
\* joined by the single spaces of the format string.  The braces inside t
\* are data, not placeholders: t is an argument, not the format string.
FormatRgb(t, r, g, b) == t \o " " \o Dec(r) \o " " \o Dec(g) \o " " \o Dec(b)

\* format!("{} {}", t, n)
FormatN(t, n) == t \o " " \o Dec(n)

(* ------------------------------ frames -------------------------------- *)
\* The pixel values the input frames are drawn from: (r, g, b, a).
Palette ==
    << [r |-> 255, g |-> 0,   b |-> 0,   a |-> 255],
       [r |-> 0,   g |-> 128, b |-> 7,   a |-> 128],
       [r |-> 255, g |-> 0,   b |-> 0,   a |-> 127],
       [r |-> 12,  g |-> 34,  b |-> 56,  a |-> 0] >>

PaletteLen == Len(Palette)

\* ImageFrame: a raster of width x height pixels.
ImageFrame(w, h, seed, stride) ==
    [width |-> w, height |-> h,
     px |-> [c \in (0 .. w - 1) \X (0 .. h - 1) |->
                Palette[((seed + c[1] + stride * c[2]) % PaletteLen) + 1]]]

dimensions(frame) == <<frame.width, frame.height>>

InBounds(frame, x, y) == x >= 0 /\ x < frame.width /\ y >= 0 /\ y < frame.height

\* Defined for coordinates inside the frame; the image crate panics otherwise.
get_pixel_rgba(frame, x, y) == frame.px[<<x, y>>]

(* --------------------------- row encoder ------------------------------ *)
max_y_unclamped(frame) == frame.height

max_y(frame) == frame.height - (frame.height % 2)

max_x(frame) == frame.width

IsTransparentLe(p) == p.a <= ALPHA_THRESHOLD

IsTransparent(p) == p.a < ALPHA_THRESHOLD

\* Upper pixel (background)
UpperPiece(p) ==
    IF IsTransparent(p) THEN ANSI_BG_TRANSPARENT_COLOR
    ELSE FormatRgb(ANSI_BG_RGB_COLOR, p.r, p.g, p.b)

\* Lower pixel (foreground)
LowerPiece(p) ==
    IF IsTransparent(p) THEN ANSI_FG_TRANSPARENT_COLOR
    ELSE FormatRgb(ANSI_FG_RGB_COLOR, p.r, p.g, p.b)

\* The pixel coordinates the worker of row y passes to get_pixel_rgba, in order.
AccessSeq(frame, y) ==
    [n \in 1 .. 2 * max_x(frame) |-> <<(n - 1) \div 2, y + ((n - 1) % 2)>>]

\* Position of the first access outside the frame, 0 when there is none.
FirstBad(frame, y) ==
    LET acc == AccessSeq(frame, y)
        bad == {n \in DOMAIN acc : ~InBounds(frame, acc[n][1], acc[n][2])}
    IN  IF bad = {} THEN 0 ELSE CHOOSE n \in bad : \A m \in bad : n <= m

\* The coordinates a worker reads before it finishes or panics.
WorkerReads(frame, y) ==
    LET acc == AccessSeq(frame, y)
        fb == FirstBad(frame, y)
        last == IF fb = 0 THEN Len(acc) ELSE fb
    IN  {acc[n] : n \in 1 .. last}

\* The line of the worker of row y: two pieces per column, then reset, newline.
RECURSIVE LineFrom(_, _, _)
LineFrom(frame, y, x) ==
    IF x >= max_x(frame) THEN <<ANSI_RESET, "\n">>
    ELSE <<UpperPiece(get_pixel_rgba(frame, x, y)),
           LowerPiece(get_pixel_rgba(frame, x, y + 1))>>
         \o LineFrom(frame, y, x + 1)

EncodeLine(frame, y) == LineFrom(frame, y, 0)

\* String::new()
EmptyString == <<>>

\* lines[idx as usize] = line, in arrival order instead of by index
StoreLineByArrival(ls, idx, line) ==
    LET free == {k \in DOMAIN ls : ls[k] = EmptyString}
    IN  IF free = {} THEN ls
        ELSE [ls EXCEPT ![CHOOSE k \in free : \A m \in free : k <= m] = line]

\* lines[idx as usize] = line
StoreLine(ls, idx, line) == [ls EXCEPT ![idx + 1] = line]


(* ------------------------------- state -------------------------------- *)
VARIABLES
    \* escape_frames
    frames,      \* the argument: a sequence of ImageFrame
    ef_pc,       \* "spawn" | "collect" | "done" | "panicked" | "idle"
    fidx,        \* 1-based position of the frame of the outer for loop
    y,           \* the spawn loop's y
    workers,     \* row-pair index -> "unspawned" | "running" | "sent" | "exited"
    chan,        \* the mpsc channel: messages sent and not yet received
    tx_alive,    \* the main thread still holds its Sender
    lines,       \* the Vec<String> being reassembled
    escaped,     \* the result vector
    reads,       \* <<frame, x, y>> of every get_pixel_rgba call made
    arrivals,    \* history: per frame, the indices in the order rx.recv() gave them
    \* print_frames
    silent,      \* args.silent
    is_tty,      \* what is_terminal() answers
    term,        \* the terminal's termios: the set of flags that are on
    term_state,  \* _term_state: Option<TermState>
    pc,          \* "idle" | "setup" | "single" | "install" | "check" | "body"
                 \*   | "sleep" | "teardown" | "returned"
    playing,     \* the AtomicBool shared with the ctrl-c handler
    handler_set, \* ctrlc::set_handler succeeded
    h,           \* the cursor-up count computed before the loop
    i,           \* the loop counter
    out,         \* everything written to stdout, one entry per print!
    result,      \* "none" | "Ok" | "Err"
    \* history
    term0,          \* the termios before print_frames began
    restore_calls,  \* calls of enable_echo made by TermState::drop
    setattr_failed, \* some tcsetattr call failed
    stop_at,        \* where the loop stood when the flag was first cleared
    printed,        \* frames printed by the animation loop
    loads,          \* playing.load() calls made by the loop
    \* main, read_input, decode_image, scale_frames
    main_pc,     \* "idle" | "read" | "decode" | "scale" | "escape" | "escaping"
                 \*   | "printing" | "exit"
    main_result, \* "none" | "Ok" | "Err:read" | "Err:decode" | "Err:print" | "panic"
    input,       \* what the path or stdin holds
    top_offset,  \* args.top_offset
    build,       \* "debug" (overflow checks on) | "release" (wrapping)
    winsize,     \* what ioctl(TIOCGWINSZ) answers on stdout
    decoded,     \* the frames decode_image returned
    box,         \* scale_frames: the target box, <<w, h>>
    targets,     \* scale_frames: per frame <<new_width, new_height>>
    scaled       \* the frames scale_frames returned

enc_vars == <<frames, ef_pc, fidx, y, workers, chan, tx_alive, lines, escaped, reads,
              arrivals>>

play_vars == <<silent, is_tty, term, term_state, pc, playing, handler_set, h, i, out,
               result, term0, restore_calls, setattr_failed, stop_at, printed, loads>>

main_vars == <<main_pc, main_result, input, top_offset, build, winsize, decoded, box,
               targets, scaled>>

vars == <<enc_vars, play_vars, main_vars>>

(* --------------------------- escape_frames ---------------------------- *)
WorkerIds == 0 .. (MaxH \div 2)

NoWorkers == [k \in WorkerIds |-> "unspawned"]

CurFrame == frames[fidx]

\* for y in (0..max_y).step_by(2) { thread::spawn(...) }
SpawnWorker ==
    /\ ef_pc = "spawn"
    /\ y < max_y(CurFrame)
    /\ workers' = [workers EXCEPT ![y \div 2] = "running"]
    /\ y' = y + 2
    /\ UNCHANGED <<frames, ef_pc, fidx, chan, tx_alive, lines, escaped, reads, arrivals,
                   play_vars, main_vars>>

\* The spawned closure for row y = 2k: build the line, send (y / 2, line).
\* A get_pixel outside the frame panics the thread before it sends.
WorkerRun(k) ==
    /\ workers[k] = "running"
    /\ reads' = reads \cup {<<fidx, c[1], c[2]>> : c \in WorkerReads(CurFrame, 2 * k)}
    /\ IF FirstBad(CurFrame, 2 * k) # 0
       THEN /\ workers' = [workers EXCEPT ![k] = "exited"]
            /\ chan' = chan
       ELSE /\ workers' = [workers EXCEPT ![k] = "sent"]
            /\ chan' = Append(chan, <<(2 * k) \div 2, EncodeLine(CurFrame, 2 * k)>>)
    /\ UNCHANGED <<frames, ef_pc, fidx, y, tx_alive, lines, escaped, arrivals, play_vars, main_vars>>

\* The closure returns: its Sender clone is dropped.
WorkerExit(k) ==
    /\ workers[k] = "sent"
    /\ workers' = [workers EXCEPT ![k] = "exited"]
    /\ UNCHANGED <<frames, ef_pc, fidx, y, chan, tx_alive, lines, escaped, reads, arrivals,
                   play_vars, main_vars>>

\* drop(tx); let mut lines = vec![String::new(); (max_y / 2) as usize];
DropTx ==
    /\ ef_pc = "spawn"
    /\ y >= max_y(CurFrame)
    /\ tx_alive' = FALSE
    /\ lines' = [k \in 1 .. (max_y(CurFrame) \div 2) |-> EmptyString]
    /\ ef_pc' = "collect"
    /\ UNCHANGED <<frames, fidx, y, workers, chan, escaped, reads, arrivals, play_vars, main_vars>>

\* while let Ok((idx, line)) = rx.recv() { lines[idx as usize] = line; }
Recv ==
    /\ ef_pc = "collect"
    /\ chan # <<>>
    /\ LET idx == Head(chan)[1]
           line == Head(chan)[2]
       IN  IF idx + 1 \in DOMAIN lines
           THEN /\ lines' = StoreLine(lines, idx, line)
                /\ ef_pc' = ef_pc
           ELSE /\ lines' = lines
                /\ ef_pc' = "panicked"
    /\ chan' = Tail(chan)
    /\ arrivals' = [arrivals EXCEPT ![fidx] = Append(@, Head(chan)[1])]
    /\ UNCHANGED <<frames, fidx, y, workers, tx_alive, escaped, reads, play_vars, main_vars>>

\* Only the main thread's Sender counted: the clones moved into the workers ignored.
SendersAliveMainOnly == tx_alive

SendersAlive == tx_alive \/ \E k \in WorkerIds : workers[k] \in {"running", "sent"}

\* rx.recv() returns Err: the channel is empty and every Sender is dropped.
\* escaped.push(lines); then the next frame, or return escaped.
RecvDisconnected ==
    /\ ef_pc = "collect"
    /\ chan = <<>>
    /\ ~SendersAlive
    /\ escaped' = Append(escaped, lines)
    /\ IF fidx < Len(frames)
       THEN /\ fidx' = fidx + 1
            /\ y' = 0
            /\ tx_alive' = TRUE
            /\ workers' = NoWorkers
            /\ ef_pc' = "spawn"
       ELSE /\ ef_pc' = "done"
            /\ UNCHANGED <<fidx, y, tx_alive, workers>>
    /\ UNCHANGED <<frames, chan, lines, reads, arrivals, play_vars, main_vars>>

(* ---------------------------- terminal.rs ----------------------------- *)
TermFlags == {"ECHO", "ICANON", "ISIG", "ICRNL"}

TermiosStates == SUBSET TermFlags

\* std::mem::zeroed()
ZeroedTermios == {}

\* c_lflag &= !ECHO; c_lflag |= ICANON | ISIG; c_iflag |= ICRNL
NoEcho(termios) == (termios \ {"ECHO"}) \cup {"ICANON", "ISIG", "ICRNL"}

None == [some |-> FALSE, termios |-> ZeroedTermios]

Some(termios) == [some |-> TRUE, termios |-> termios]

\* disable_echo_unix: the termios value boxed into the TermState
\* (get_ok: tcgetattr returned 0).
SavedTermios(get_ok) == IF get_ok THEN term ELSE ZeroedTermios

\* disable_echo_unix: the terminal after the call (set_ok: tcsetattr took effect).
TermAfterDisable(get_ok, set_ok) == IF get_ok /\ set_ok THEN NoEcho(term) ELSE term

\* _term_state leaked (never dropped)
ForgetTermState ==
    UNCHANGED <<term, restore_calls, setattr_failed>>

\* _term_state goes out of scope: TermState::drop, enable_echo_unix
DropTermState ==
    IF term_state.some
    THEN \E set_ok \in BOOLEAN :
            /\ term' = IF set_ok THEN term_state.termios ELSE term
            /\ restore_calls' = restore_calls + 1
            /\ setattr_failed' = (setattr_failed \/ ~set_ok)
    ELSE UNCHANGED <<term, restore_calls, setattr_failed>>

PlayIdle ==
    /\ silent = FALSE
    /\ is_tty = FALSE
    /\ term = TermFlags
    /\ term_state = None
    /\ pc = "idle"
    /\ playing = TRUE
    /\ handler_set = FALSE
    /\ h = 0
    /\ i = 0
    /\ out = <<>>
    /\ result = "none"
    /\ term0 = TermFlags
    /\ restore_calls = 0
    /\ setattr_failed = FALSE
    /\ stop_at = [set |-> FALSE, pc |-> "idle", i |-> 0]
    /\ printed = 0
    /\ loads = 0

NoInput == [readable |-> FALSE, format |-> "unknown", valid |-> FALSE, dims |-> <<>>]

NoWinsize == [ok |-> FALSE, cols |-> 0, rows |-> 0]

\* main is not running: the function under study was called directly.
MainIdle ==
    /\ main_pc = "idle"
    /\ main_result = "none"
    /\ input = NoInput
    /\ top_offset = 8
    /\ build = "release"
    /\ winsize = NoWinsize
    /\ decoded = <<>>
    /\ box = <<0, 0>>
    /\ targets = <<>>
    /\ scaled = <<>>

\* The frames handed to escape_frames: 1 .. MaxFrames frames of one size, drawn
\* from the palette by a per-row stride, each frame starting one entry further.
FrameSeqs ==
    {[k \in 1 .. n |-> ImageFrame(fw, fh, k - 1, stride)] :
        n \in 1 .. MaxFrames, fw \in 1 .. MaxW, fh \in 1 .. MaxH,
        stride \in 0 .. PaletteLen - 1}

InitEncode ==
    /\ frames \in FrameSeqs
    /\ ef_pc = "spawn"
    /\ fidx = 1
    /\ y = 0
    /\ workers = NoWorkers
    /\ chan = <<>>
    /\ tx_alive = TRUE
    /\ lines = <<>>
    /\ escaped = <<>>
    /\ reads = {}
    /\ arrivals = [f \in 1 .. Len(frames) |-> <<>>]
    /\ PlayIdle
    /\ MainIdle

NextEncode ==
    \/ SpawnWorker
    \/ \E k \in WorkerIds : WorkerRun(k)
    \/ \E k \in WorkerIds : WorkerExit(k)
    \/ DropTx
    \/ Recv
    \/ RecvDisconnected

SpecEncode == InitEncode /\ [][NextEncode]_vars

\* The steps of the thread that called escape_frames.
EncodeMainStep ==
    \/ SpawnWorker
    \/ DropTx
    \/ Recv
    \/ RecvDisconnected

\* Every thread that can run is eventually scheduled: the caller (rx.recv()
\* blocks only while nothing is queued and a Sender lives) and each worker.
\* (Frames one pixel wide: the width plays no part in the fan-out and fan-in.)
InitEncodeFair ==
    /\ InitEncode
    /\ \A f \in DOMAIN frames : frames[f] = ImageFrame(1, frames[1].height, f - 1, 1)

SpecEncodeFair ==
    /\ InitEncodeFair
    /\ [][NextEncode]_vars
    /\ WF_vars(EncodeMainStep)
    /\ \A k \in WorkerIds : WF_vars(WorkerRun(k) \/ WorkerExit(k))

(* ---------------------------- print_frames ---------------------------- *)
MaxIter == 3

NUM_ADDITIONAL_LINES == 2

\* The exit hint; the backquote is written "<BQ>".
HINT == "\npress <BQ>ctrl c<BQ> to exit\n"

\* One print! call: where it is in the source, the text written, the loop
\* iteration it belongs to, and (for a line) <<frame, line>>, (for a cursor-up)
\* the count formatted into it.
Entry(src, text, iter, arg) == [src |-> src, text |-> text, iter |-> iter, arg |-> arg]

\* for line in &frames[f] { print!("{}", line); }   (f is 1-based here)
FrameEntries(f, iter) ==
    [j \in 1 .. Len(escaped[f]) |-> Entry("line", escaped[f][j], iter, <<f, j>>)]

frame_count == Len(escaped)

\* let h = frames[0].len() + if silent { 0 } else { NUM_ADDITIONAL_LINES };
CursorUpCount == Len(escaped[1]) + (IF silent THEN 0 ELSE NUM_ADDITIONAL_LINES)

\* let _term_state = if is_terminal() { Some(disable_echo()) } else { None };
\* print!("{}", ANSI_CURSOR_HIDE); print!("\n");
Setup ==
    /\ pc = "setup"
    /\ \E get_ok \in BOOLEAN, set_ok \in BOOLEAN :
          IF is_tty
          THEN /\ term_state' = Some(SavedTermios(get_ok))
               /\ term' = TermAfterDisable(get_ok, set_ok)
               /\ setattr_failed' = (get_ok /\ ~set_ok)
          ELSE /\ term_state' = None
               /\ UNCHANGED <<term, setattr_failed>>
    /\ out' = out \o <<Entry("hide", ANSI_CURSOR_HIDE, 0, 0), Entry("nl", "\n", 0, 0)>>
    /\ pc' = IF frame_count = 1 THEN "single" ELSE "install"
    /\ UNCHANGED <<silent, is_tty, playing, handler_set, h, i, result, term0,
                   restore_calls, stop_at, printed, enc_vars,
                   loads, main_vars>>

\* The single frame printed the way the loop prints one: with the hint.
PrintSingleWithHint ==
    /\ pc = "single"
    /\ out' = out \o FrameEntries(1, 0)
                  \o (IF ~silent THEN <<Entry("hint", HINT, 0, 0)>> ELSE <<>>)
    /\ pc' = "teardown"
    /\ UNCHANGED <<silent, is_tty, term, term_state, playing, handler_set, h, i, result,
                   term0, restore_calls, setattr_failed, stop_at, printed, enc_vars,
                   loads, main_vars>>

\* if frame_count == 1 { for line in &frames[0] { print!("{}", line); } }
PrintSingle ==
    /\ pc = "single"
    /\ out' = out \o FrameEntries(1, 0)
    /\ pc' = "teardown"
    /\ UNCHANGED <<silent, is_tty, term, term_state, playing, handler_set, h, i, result,
                   term0, restore_calls, setattr_failed, stop_at, printed, enc_vars,
                   loads, main_vars>>

\* let playing = Arc::new(AtomicBool::new(true));
\* ctrlc::set_handler(...)?;  let h = ...;  let mut i = 0;
\* On Err the ? returns at once: nothing more is printed, _term_state is dropped.
InstallHandler ==
    /\ pc = "install"
    /\ \E ok \in BOOLEAN :
          IF ok
          THEN /\ handler_set' = TRUE
               /\ playing' = TRUE
               /\ h' = CursorUpCount
               /\ i' = 0
               /\ pc' = "check"
               /\ UNCHANGED <<result, term, restore_calls, setattr_failed>>
          ELSE /\ result' = "Err"
               /\ pc' = "returned"
               /\ DropTermState
               /\ UNCHANGED <<handler_set, playing, h, i>>
    /\ UNCHANGED <<silent, is_tty, term_state, out, term0, stop_at, printed, enc_vars,
                   loads, main_vars>>

\* The flag read on every other iteration only: while i % 2 == 1 || playing.load(..)
LoopCheckSkipOdd ==
    /\ pc = "check"
    /\ (i % 2 = 1 \/ playing) => i < MaxIter
    /\ pc' = IF i % 2 = 1 \/ playing THEN "body" ELSE "teardown"
    /\ loads' = IF i % 2 = 1 THEN loads ELSE loads + 1
    /\ UNCHANGED <<silent, is_tty, term, term_state, playing, handler_set, h, i, out,
                   result, term0, restore_calls, setattr_failed, stop_at, printed, enc_vars, main_vars>>

\* The flag loaded before the loop only: let run = playing.load(..); while run
LoopCheckStale ==
    /\ pc = "check"
    /\ (i = 0 => playing) => i < MaxIter
    /\ pc' = IF i = 0 => playing THEN "body" ELSE "teardown"
    /\ loads' = loads + 1
    /\ UNCHANGED <<silent, is_tty, term, term_state, playing, handler_set, h, i, out,
                   result, term0, restore_calls, setattr_failed, stop_at, printed, enc_vars, main_vars>>

\* The flag tested after the body (loop { ...; if !playing.load(..) { break } })
LoopCheckDoWhile ==
    /\ pc = "check"
    /\ (i = 0 \/ playing) => i < MaxIter
    /\ pc' = IF i = 0 \/ playing THEN "body" ELSE "teardown"
    /\ loads' = loads + 1
    /\ UNCHANGED <<silent, is_tty, term, term_state, playing, handler_set, h, i, out,
                   result, term0, restore_calls, setattr_failed, stop_at, printed, enc_vars, main_vars>>

\* while playing.load(Ordering::SeqCst)
LoopCheck ==
    /\ pc = "check"
    /\ playing => i < MaxIter
    /\ pc' = IF playing THEN "body" ELSE "teardown"
    /\ loads' = loads + 1
    /\ UNCHANGED <<silent, is_tty, term, term_state, playing, handler_set, h, i, out,
                   result, term0, restore_calls, setattr_failed, stop_at, printed, enc_vars, main_vars>>

\* The frame index saturating at the last frame instead of wrapping.
LoopBodyNoWrap ==
    /\ pc = "body"
    /\ out' = out
              \o (IF i # 0 THEN <<Entry("up", FormatN(ANSI_CURSOR_UP, h), i, h)>> ELSE <<>>)
              \o FrameEntries((IF i < frame_count THEN i ELSE frame_count - 1) + 1, i)
              \o (IF ~silent THEN <<Entry("hint", HINT, i, 0)>>
                  ELSE <<>>)
    /\ printed' = printed + 1
    /\ pc' = "sleep"
    /\ UNCHANGED <<silent, is_tty, term, term_state, playing, handler_set, h, i, result,
                   term0, restore_calls, setattr_failed, stop_at, enc_vars,
                   loads, main_vars>>

\* if i != 0 { print!(cursor up) }  for line in &frames[i % frame_count] {...}
\* if !silent { print!(HINT); }
LoopBody ==
    /\ pc = "body"
    /\ out' = out
              \o (IF i # 0 THEN <<Entry("up", FormatN(ANSI_CURSOR_UP, h), i, h)>> ELSE <<>>)
              \o FrameEntries((i % frame_count) + 1, i)
              \o (IF ~silent THEN <<Entry("hint", HINT, i, 0)>>
                  ELSE <<>>)
    /\ printed' = printed + 1
    /\ pc' = "sleep"
    /\ UNCHANGED <<silent, is_tty, term, term_state, playing, handler_set, h, i, result,
                   term0, restore_calls, setattr_failed, stop_at, enc_vars,
                   loads, main_vars>>

\* thread::sleep(frame_duration); i += 1;
Sleep ==
    /\ pc = "sleep"
    /\ i' = i + 1
    /\ pc' = "check"
    /\ UNCHANGED <<silent, is_tty, term, term_state, playing, handler_set, h, out, result,
                   term0, restore_calls, setattr_failed, stop_at, printed, enc_vars,
                   loads, main_vars>>

\* print!("{}", ANSI_RESET); print!("{}", ANSI_CURSOR_SHOW); Ok(())
\* and _term_state is dropped as the function returns.
Teardown ==
    /\ pc = "teardown"
    /\ out' = out \o <<Entry("reset", ANSI_RESET, 0, 0), Entry("show", ANSI_CURSOR_SHOW, 0, 0)>>
    /\ result' = "Ok"
    /\ pc' = "returned"
    /\ DropTermState
    /\ UNCHANGED <<silent, is_tty, term_state, playing, handler_set, h, i, term0,
                   stop_at, printed, enc_vars,
                   loads, main_vars>>

\* The ctrl-c handler: p.store(false, Ordering::SeqCst)
Interrupt ==
    /\ handler_set
    /\ pc # "returned"
    /\ playing' = FALSE
    /\ stop_at' = IF stop_at.set THEN stop_at ELSE [set |-> TRUE, pc |-> pc, i |-> i]
    /\ UNCHANGED <<silent, is_tty, term, term_state, pc, handler_set, h, i, out, result,
                   term0, restore_calls, setattr_failed, printed, enc_vars,
                   loads, main_vars>>

\* What escape_frames returns for one frame: line k encodes rows 2(k-1), 2(k-1)+1.
EncodedFrame(frame) ==
    [k \in 1 .. (max_y(frame) \div 2) |-> EncodeLine(frame, 2 * (k - 1))]

\* Frame sequences whose frames differ in height (GIF frames keep their own
\* size through decode_gif and scale_frames).
PlayHeights == {1} \cup {2 * l : l \in 1 .. (MaxH \div 2)}

PlayFrameSeqs ==
    UNION {{[k \in 1 .. n |-> ImageFrame(1, hs[k], k, 1)] : hs \in [1 .. n -> PlayHeights]} :
              n \in 1 .. MaxFrames}

\* print_frames starts where escape_frames returned.
InitPlay ==
    /\ frames \in PlayFrameSeqs
    /\ escaped = [k \in 1 .. Len(frames) |-> EncodedFrame(frames[k])]
    /\ ef_pc = "done"
    /\ fidx = Len(frames)
    /\ y = max_y(frames[Len(frames)])
    /\ workers = [k \in WorkerIds |->
                    IF 2 * k < max_y(frames[Len(frames)]) THEN "exited" ELSE "unspawned"]
    /\ chan = <<>>
    /\ tx_alive = FALSE
    /\ lines = escaped[Len(frames)]
    /\ reads = UNION {{<<f, c[1], c[2]>> : c \in (0 .. frames[f].width - 1)
                                                   \X (0 .. max_y(frames[f]) - 1)} :
                         f \in 1 .. Len(frames)}
    /\ arrivals = [f \in 1 .. Len(frames) |->
                     [k \in 1 .. (max_y(frames[f]) \div 2) |-> k - 1]]
    /\ silent \in BOOLEAN
    /\ is_tty \in BOOLEAN
    /\ term \in (IF is_tty THEN TermiosStates ELSE {TermFlags})
    /\ term0 = term
    /\ term_state = None
    /\ pc = "setup"
    /\ playing = TRUE
    /\ handler_set = FALSE
    /\ h = 0
    /\ i = 0
    /\ out = <<>>
    /\ result = "none"
    /\ restore_calls = 0
    /\ setattr_failed = FALSE
    /\ stop_at = [set |-> FALSE, pc |-> "idle", i |-> 0]
    /\ printed = 0
    /\ loads = 0
    /\ MainIdle

PlayStep ==
    \/ Setup
    \/ PrintSingle
    \/ InstallHandler
    \/ LoopCheck
    \/ LoopBody
    \/ Sleep
    \/ Teardown

NextPlay ==
    \/ PlayStep
    \/ Interrupt

SpecPlay == InitPlay /\ [][NextPlay]_vars

\* For the liveness of the loop: the same runs from a terminal in its usual
\* (cooked, echoing) state.  The playback thread is scheduled fairly; ctrl-c may
\* never come.
InitPlayFair == InitPlay /\ term = TermFlags

SpecPlayFair == InitPlayFair /\ [][NextPlay]_vars /\ WF_vars(PlayStep)

(* ------------------- main: read, decode, scale ------------------------ *)
MaxCols == 3
MaxRows == 10

RESIZE_OFFSET_Y == 8
RESIZE_FACTOR_Y == 2
RESIZE_FACTOR_X == 1
DEFAULT_TERM_COLS == 80
DEFAULT_TERM_ROWS == 24

\* usize arithmetic wraps modulo 2^64 in a build without overflow checks; the
\* model keeps the wrap with a narrower word (still far wider than any
\* terminal or frame dimension it uses).
UsizeModulus == 2 ^ 20

\* What the path or stdin holds: readable or not; how image::guess_format
\* classifies the bytes; whether the decoder accepts them; the sizes of the
\* images in them.  Bytes guess_format cannot classify are not decodable
\* either (load_from_memory starts with the same classification).
Input(readable, format, valid, dims) ==
    [readable |-> readable, format |-> format, valid |-> valid, dims |-> dims]

Sizes == (1 .. MaxW) \X (1 .. MaxH)

GifSizes == {<<1, 1>>, <<MaxW, MaxH>>}

\* The frame sizes of a GIF of n frames: the two sizes in turn, from either.
GifDims(n) ==
    {[k \in 1 .. n |-> IF k % 2 = 1 THEN first ELSE CHOOSE d \in GifSizes : d # first] :
        first \in GifSizes}

Inputs ==
    {NoInput}
    \cup {Input(TRUE, fmt, FALSE, <<>>) : fmt \in {"unknown", "gif", "png", "other"}}
    \cup {Input(TRUE, fmt, TRUE, <<d>>) : fmt \in {"png", "other"}, d \in Sizes}
    \cup {Input(TRUE, "gif", TRUE, <<d>>) : d \in Sizes}
    \cup {Input(TRUE, "gif", TRUE, ds) : ds \in UNION {GifDims(n) : n \in 0 .. MaxFrames}}

\* Result<Vec<ImageFrame>>
Ok(fs) == [ok |-> TRUE, frames |-> fs, err |-> ""]

Err(msg) == [ok |-> FALSE, frames |-> <<>>, err |-> msg]

\* The k-th image of the input, decoded.
FrameOf(d, k) == ImageFrame(d[1], d[2], k - 1, 1)

\* decode_gif: read_info(buf)?; one frame pushed per read_next_frame()?;
\* if frames.is_empty() { bail!(..) }.  (from_raw is given width * height * 4
\* bytes, so it always returns Some.)
decode_gif(inp) ==
    IF ~inp.valid THEN Err("gif decoding error")
    ELSE IF Len(inp.dims) = 0 THEN Err("No frames found in GIF")
    ELSE Ok([k \in 1 .. Len(inp.dims) |-> FrameOf(inp.dims[k], k)])

\* The size test with && in place of ||.
decode_static_image_both_small(inp) ==
    IF ~inp.valid THEN Err("Failed to decode image")
    ELSE IF inp.dims[1][1] < 2 /\ inp.dims[1][2] < 2
         THEN Err("The input image is too small")
         ELSE Ok(<<FrameOf(inp.dims[1], 1)>>)

\* decode_static_image: load_from_memory(buf)?;
\* if width < 2 || height < 2 { bail!(..) }; Ok(vec![frame])
decode_static_image(inp) ==
    IF ~inp.valid THEN Err("Failed to decode image")
    ELSE IF inp.dims[1][1] < 2 \/ inp.dims[1][2] < 2
         THEN Err("The input image is too small")
         ELSE Ok(<<FrameOf(inp.dims[1], 1)>>)

\* decode_image: Ok(Gif) => decode_gif; any other format, or none guessed,
\* => decode_static_image.
decode_image(inp) ==
    IF inp.format = "gif" THEN decode_gif(inp) ELSE decode_static_image(inp)

\* let buf = read_input(args.input)?;
ReadInput ==
    /\ main_pc = "read"
    /\ IF input.readable
       THEN /\ main_pc' = "decode"
            /\ main_result' = main_result
       ELSE /\ main_pc' = "exit"
            /\ main_result' = "Err:read"
    /\ UNCHANGED <<input, top_offset, build, winsize, decoded, box, targets, scaled,
                   enc_vars, play_vars>>

\* The decode error swallowed: decode_image(&buf).unwrap_or_default()
DecodeImageUnwrapOrDefault ==
    /\ main_pc = "decode"
    /\ decoded' = decode_image(input).frames
    /\ main_pc' = "scale"
    /\ main_result' = main_result
    /\ UNCHANGED <<input, top_offset, build, winsize, box, targets, scaled,
                   enc_vars, play_vars>>

\* let frames = decode_image(&buf)?;
DecodeImage ==
    /\ main_pc = "decode"
    /\ LET r == decode_image(input)
       IN  IF r.ok
           THEN /\ decoded' = r.frames
                /\ main_pc' = "scale"
                /\ main_result' = main_result
           ELSE /\ decoded' = decoded
                /\ main_pc' = "exit"
                /\ main_result' = "Err:decode"
    /\ UNCHANGED <<input, top_offset, build, winsize, box, targets, scaled,
                   enc_vars, play_vars>>

\* What ioctl(STDOUT_FILENO, TIOCGWINSZ) can answer: failure, or any
\* (ws_col, ws_row), 0 x 0 included.
Winsizes ==
    {NoWinsize}
    \cup {[ok |-> TRUE, cols |-> c, rows |-> r] : c \in 0 .. MaxCols, r \in 0 .. MaxRows}

\* get_terminal_size_unix: Ok((ws_col, ws_row)) when the ioctl succeeds,
\* Ok((80, 24)) otherwise.
get_terminal_size(ws) ==
    IF ws.ok THEN <<ws.cols, ws.rows>> ELSE <<DEFAULT_TERM_COLS, DEFAULT_TERM_ROWS>>

\* let (cols, rows) = if is_terminal() { get_terminal_size().unwrap_or(..) }
\*                    else { (DEFAULT_TERM_COLS, DEFAULT_TERM_ROWS) };
TermSize ==
    IF is_tty THEN get_terminal_size(winsize)
    ELSE <<DEFAULT_TERM_COLS, DEFAULT_TERM_ROWS>>

\* rows - RESIZE_OFFSET_Y overflows (usize): a panic with overflow checks.
SubOverflows(rows) == rows < RESIZE_OFFSET_Y

\* let w = cols * RESIZE_FACTOR_X;
BoxWidth(cols) == (cols * RESIZE_FACTOR_X) % UsizeModulus

\* let h = (rows - RESIZE_OFFSET_Y) * RESIZE_FACTOR_Y;   (wrapping)
BoxHeight(rows) ==
    (((rows - RESIZE_OFFSET_Y) % UsizeModulus) * RESIZE_FACTOR_Y) % UsizeModulus

\* aspect_ratio > target_aspect_ratio, with aspect_ratio = ow / oh and
\* target_aspect_ratio = bw / bh in f32.  bh = 0 makes the target +inf or NaN
\* and the comparison false.
AspectWider(ow, oh, bw, bh) == bh # 0 /\ ow * bh > bw * oh

\* (a / b) as u32 for an f32 quotient of non-negative operands: the exact
\* floor, or one less when the exact quotient is an integer and the rounding
\* of the intermediate f32 values lands just below it (low: that outcome).
Trunc(a, b, low) ==
    IF low /\ a % b = 0 /\ a \div b > 0 THEN (a \div b) - 1 ELSE a \div b

\* The two branches exchanged.
TargetDimsSwapped(ow, oh, bw, bh, low) ==
    IF ~AspectWider(ow, oh, bw, bh)
    THEN <<bw, Trunc(bw * oh, ow, low)>>
    ELSE <<Trunc(bh * ow, oh, low), bh>>

\* let (new_width, new_height) = if aspect_ratio > target_aspect_ratio
\*     { (w as u32, (w as f32 / aspect_ratio) as u32) }
\*     else { ((h as f32 * aspect_ratio) as u32, h as u32) };
TargetDims(ow, oh, bw, bh, low) ==
    IF AspectWider(ow, oh, bw, bh)
    THEN <<bw, Trunc(bw * oh, ow, low)>>
    ELSE <<Trunc(bh * ow, oh, low), bh>>

Max(a, b) == IF a >= b THEN a ELSE b

\* round(a / b), halves away from zero
Round(a, b) == (2 * a + b) \div (2 * b)

\* DynamicImage::resize(nwidth, nheight, filter): the aspect ratio is kept and
\* the image is scaled to the largest size that fits in nwidth x nheight,
\* each side at least 1.
ResizeDims(ow, oh, nw, nh) ==
    IF nw * oh <= nh * ow
    THEN <<Max(nw, 1), Max(Round(oh * nw, ow), 1)>>
    ELSE <<Max(Round(ow * nh, oh), 1), Max(nh, 1)>>

\* The frame resize returns for the k-th frame.
Resized(frame, k, t) ==
    LET d == ResizeDims(frame.width, frame.height, t[1], t[2])
    IN  ImageFrame(d[1], d[2], k - 1, 1)

\* The frames pushed in reverse.
ScaledFramesReversed(fs, ts) ==
    [k \in 1 .. Len(fs) |-> Resized(fs[Len(fs) + 1 - k], Len(fs) + 1 - k, ts[Len(fs) + 1 - k])]

\* for frame in frames { ...; scaled_frames.push(ImageFrame::new(scaled_img)); }
ScaledFrames(fs, ts) == [k \in 1 .. Len(fs) |-> Resized(fs[k], k, ts[k])]

\* let scaled = scale_frames(frames)?;
ScaleFrames ==
    /\ main_pc = "scale"
    /\ LET cols == TermSize[1]
           rows == TermSize[2]
       IN  IF build = "debug" /\ SubOverflows(rows)
           THEN /\ main_pc' = "exit"
                /\ main_result' = "panic"
                /\ UNCHANGED <<box, targets, scaled>>
           ELSE /\ box' = <<BoxWidth(cols), BoxHeight(rows)>>
                /\ \E low \in [1 .. Len(decoded) -> BOOLEAN] :
                      targets' = [k \in 1 .. Len(decoded) |->
                                     TargetDims(decoded[k].width, decoded[k].height,
                                                box'[1], box'[2], low[k])]
                /\ scaled' = ScaledFrames(decoded, targets')
                /\ main_pc' = "escape"
                /\ main_result' = main_result
    /\ UNCHANGED <<input, top_offset, build, winsize, decoded, enc_vars, play_vars>>

\* escape_frames has not been called.
EncodeIdle ==
    /\ frames = <<>>
    /\ escaped = <<>>
    /\ ef_pc = "idle"
    /\ fidx = 0
    /\ y = 0
    /\ workers = NoWorkers
    /\ chan = <<>>
    /\ tx_alive = FALSE
    /\ lines = <<>>
    /\ reads = {}
    /\ arrivals = <<>>

\* let escaped = escape_frames(scaled);  the call as a whole: what it
\* returns is EncodedFrame of each frame (its threads are SpecEncode's).
EscapeFrames ==
    /\ main_pc = "escape"
    /\ frames' = scaled
    /\ escaped' = [k \in 1 .. Len(scaled) |-> EncodedFrame(scaled[k])]
    /\ ef_pc' = "done"
    /\ main_pc' = "print"
    /\ UNCHANGED <<fidx, y, workers, chan, tx_alive, lines, reads, arrivals, play_vars,
                   main_result, input, top_offset, build, winsize, decoded, box, targets,
                   scaled>>

\* print_frames(escaped, args.silent) is entered.
CallPrintFrames ==
    /\ main_pc = "print"
    /\ pc = "idle"
    /\ pc' = "setup"
    /\ main_pc' = "printing"
    /\ UNCHANGED <<silent, is_tty, term, term_state, playing, handler_set, h, i, out,
                   result, term0, restore_calls, setattr_failed, stop_at, printed, loads,
                   enc_vars, main_result, input, top_offset, build, winsize, decoded, box,
                   targets, scaled>>

\* print_frames(..)?;  Ok(())
MainReturn ==
    /\ main_pc = "printing"
    /\ pc = "returned"
    /\ main_result' = IF result = "Ok" THEN "Ok" ELSE "Err:print"
    /\ main_pc' = "exit"
    /\ UNCHANGED <<input, top_offset, build, winsize, decoded, box, targets, scaled,
                   enc_vars, play_vars>>

\* The terminal sizes the whole-pipeline runs are started with.
MainWinsizes ==
    {[ok |-> TRUE, cols |-> 0, rows |-> 0],
     [ok |-> TRUE, cols |-> MaxCols, rows |-> MaxRows]}

\* The values given to --top-offset (default_value = "8").
TopOffsets == {2, RESIZE_OFFSET_Y}

\* main starts: Args::parse() done, nothing read.
InitMain ==
    /\ main_pc = "read"
    /\ main_result = "none"
    /\ input \in Inputs
    /\ top_offset = RESIZE_OFFSET_Y
    /\ build \in {"debug", "release"}
    /\ is_tty \in BOOLEAN
    /\ winsize \in (IF is_tty THEN MainWinsizes ELSE {NoWinsize})
    /\ decoded = <<>>
    /\ box = <<0, 0>>
    /\ targets = <<>>
    /\ scaled = <<>>
    /\ EncodeIdle
    /\ silent \in BOOLEAN
    /\ term = TermFlags
    /\ term0 = term
    /\ term_state = None
    /\ pc = "idle"
    /\ playing = TRUE
    /\ handler_set = FALSE
    /\ h = 0
    /\ i = 0
    /\ out = <<>>
    /\ result = "none"
    /\ restore_calls = 0
    /\ setattr_failed = FALSE
    /\ stop_at = [set |-> FALSE, pc |-> "idle", i |-> 0]
    /\ printed = 0
    /\ loads = 0

MainStep ==
    \/ ReadInput
    \/ DecodeImage
    \/ ScaleFrames
    \/ EscapeFrames
    \/ CallPrintFrames
    \/ MainReturn

NextMain ==
    \/ MainStep
    \/ PlayStep
    \/ Interrupt

SpecMain == InitMain /\ [][NextMain]_vars

\* The frame sequences decode_image can return.
DecodedSeqs == {decode_image(inp).frames : inp \in {c \in Inputs : decode_image(c).ok}}

\* scale_frames is entered with any decoded sequence, on any terminal.
InitScale ==
    /\ main_pc = "scale"
    /\ main_result = "none"
    /\ input = NoInput
    /\ top_offset \in TopOffsets
    /\ build \in {"debug", "release"}
    /\ is_tty \in BOOLEAN
    /\ winsize \in (IF is_tty THEN Winsizes ELSE {NoWinsize})
    /\ decoded \in DecodedSeqs
    /\ box = <<0, 0>>
    /\ targets = <<>>
    /\ scaled = <<>>
    /\ EncodeIdle
    /\ silent = FALSE
    /\ term = TermFlags
    /\ term_state = None
    /\ pc = "idle"
    /\ playing = TRUE
    /\ handler_set = FALSE
    /\ h = 0
    /\ i = 0
    /\ out = <<>>
    /\ result = "none"
    /\ term0 = TermFlags
    /\ restore_calls = 0
    /\ setattr_failed = FALSE
    /\ stop_at = [set |-> FALSE, pc |-> "idle", i |-> 0]
    /\ printed = 0
    /\ loads = 0

NextScale == ScaleFrames

SpecScale == InitScale /\ [][NextScale]_vars

(* ------------------------- claims: row encoder ------------------------ *)
\* Every line the workers have sent: <<frame, row-pair index, line>>, from the
\* channel and from the frames already reassembled.
EmittedLines ==
    {<<fidx, chan[n][1], chan[n][2]>> : n \in DOMAIN chan}
    \cup UNION {{<<f, k - 1, escaped[f][k]>> : k \in DOMAIN escaped[f]} : f \in DOMAIN escaped}

PixelAt(f, px, py) == frames[f].px[<<px, py>>]

Columns(f) == 0 .. frames[f].width - 1

OutOfOrder(seq) == \E a, b \in DOMAIN seq : a < b /\ seq[a] > seq[b]

\* C1: whatever the order in which the workers send, the returned line sequence
\* of every frame has at position k the line computed for row pair k (pixel
\* rows 2k and 2k+1), and while collecting, a filled slot holds its own line.
C1_IndexedReassembly ==
    /\ ef_pc = "done" =>
          /\ Len(escaped) = Len(frames)
          /\ \A f \in DOMAIN escaped : \A k \in DOMAIN escaped[f] :
                escaped[f][k] = EncodeLine(frames[f], 2 * (k - 1))
    /\ ef_pc = "collect" =>
          \A k \in DOMAIN lines :
             lines[k] = EmptyString \/ lines[k] = EncodeLine(CurFrame, 2 * (k - 1))

\* C1 witness: escape_frames has returned, some frame's results arrived out of
\* index order, and that frame's first two lines differ.
C1_Witness ==
    /\ ef_pc = "done"
    /\ \E f \in DOMAIN escaped :
          /\ OutOfOrder(arrivals[f])
          /\ Len(escaped[f]) >= 2
          /\ escaped[f][1] # escaped[f][2]

\* The escape sequences as section 6 of the specification writes them.
SpecBgRgb(r, g, b) == ESC \o "[48;2;" \o Dec(r) \o ";" \o Dec(g) \o ";" \o Dec(b) \o "m"

SpecFgRgb(r, g, b) ==
    ESC \o "[38;2;" \o Dec(r) \o ";" \o Dec(g) \o ";" \o Dec(b) \o "m" \o HALF_BLOCK

\* C8: for every pixel with alpha >= 128 and colour (r, g, b), the piece
\* emitted for an upper pixel is exactly ESC[48;2;r;g;bm and the piece emitted
\* for a lower pixel is exactly ESC[38;2;r;g;bm followed by the half block.
C8_TruecolorEscapes ==
    \A e \in EmittedLines : \A cx \in Columns(e[1]) :
       LET up == PixelAt(e[1], cx, 2 * e[2])
           lo == PixelAt(e[1], cx, 2 * e[2] + 1)
       IN  /\ up.a >= 128 => e[3][2 * cx + 1] = SpecBgRgb(up.r, up.g, up.b)
           /\ lo.a >= 128 => e[3][2 * cx + 2] = SpecFgRgb(lo.r, lo.g, lo.b)

\* C9: a pixel is transparent exactly when its alpha is below 128; a
\* transparent upper pixel emits ESC[0;39;49m and a transparent lower pixel
\* emits ESC[0m and one space, whatever its RGB and whatever the other pixel
\* of the cell is; no opaque pixel emits either.
C9_TransparencyThreshold ==
    \A e \in EmittedLines : \A cx \in Columns(e[1]) :
       LET up == PixelAt(e[1], cx, 2 * e[2])
           lo == PixelAt(e[1], cx, 2 * e[2] + 1)
       IN  /\ up.a < 128 <=> e[3][2 * cx + 1] = ESC \o "[0;39;49m"
           /\ lo.a < 128 <=> e[3][2 * cx + 2] = ESC \o "[0m "

\* C9 witness: escape_frames has returned a line with a cell whose upper pixel
\* has alpha 127 and whose lower pixel is opaque, and a cell whose upper pixel
\* has alpha 128 and whose lower pixel is transparent.
C9_Witness ==
    /\ ef_pc = "done"
    /\ \E f \in DOMAIN escaped : \E k \in DOMAIN escaped[f] : \E cx \in Columns(f) :
          /\ PixelAt(f, cx, 2 * (k - 1)).a = 127
          /\ PixelAt(f, cx, 2 * (k - 1) + 1).a >= 128
          /\ escaped[f][k][2 * cx + 1] = ANSI_BG_TRANSPARENT_COLOR
    /\ \E f \in DOMAIN escaped : \E k \in DOMAIN escaped[f] : \E cx \in Columns(f) :
          /\ PixelAt(f, cx, 2 * (k - 1)).a = 128
          /\ PixelAt(f, cx, 2 * (k - 1) + 1).a < 128
          /\ escaped[f][k][2 * cx + 2] = ANSI_FG_TRANSPARENT_COLOR

\* C10: for a frame of height H and width W escape_frames returns exactly
\* floor(H/2) lines, each of two pieces per column followed by the full reset
\* and a line break; every coordinate read lies inside the frame, and when H
\* is odd row H-1 is never read.
C10_LineCountAndBounds ==
    /\ ef_pc = "done" =>
          \A f \in DOMAIN frames :
             /\ Len(escaped[f]) = frames[f].height \div 2
             /\ \A k \in DOMAIN escaped[f] :
                   /\ Len(escaped[f][k]) = 2 * frames[f].width + 2
                   /\ escaped[f][k][2 * frames[f].width + 1] = ESC \o "[0m"
                   /\ escaped[f][k][2 * frames[f].width + 2] = "\n"
    /\ \A c \in reads :
          /\ InBounds(frames[c[1]], c[2], c[3])
          /\ frames[c[1]].height % 2 = 1 => c[3] # frames[c[1]].height - 1

\* C10 witness: escape_frames has returned for a frame of odd height >= 3 and
\* width >= 2, whose rows below the last were all read.
C10_Witness ==
    /\ ef_pc = "done"
    /\ \E f \in DOMAIN frames :
          /\ frames[f].height % 2 = 1
          /\ frames[f].height >= 3
          /\ frames[f].width >= 2
          /\ Len(escaped[f]) = (frames[f].height - 1) \div 2
          /\ \A cx \in Columns(f) : \A cy \in 0 .. frames[f].height - 2 :
                <<f, cx, cy>> \in reads

(* -------------------------- claims: playback -------------------------- *)
Animation == frame_count > 1

Returned == pc = "returned"

\* The reset and the cursor-show were written, in this order, after the cursor-hide.
TeardownEmitted ==
    \E a, b, c \in DOMAIN out :
       /\ a < b /\ b < c
       /\ out[a].text = ESC \o "[?25l"
       /\ out[b].text = ESC \o "[0m" /\ out[b].src = "reset"
       /\ out[c].text = ESC \o "[?25h"

\* C2: on every exit path of print_frames (a single frame printed, an
\* animation cancelled, or an error) the full reset and the cursor-show have
\* been written after the cursor-hide.
C2_TeardownOnEveryExit == Returned => TeardownEmitted

\* C3: the restoration of the terminal state is invoked exactly once in every
\* run that captured it, however the run ends, never before the run ends,
\* never twice, and never when no state was captured.
C3_RestoreExactlyOnce ==
    /\ restore_calls <= 1
    /\ ~Returned => restore_calls = 0
    /\ Returned => restore_calls = (IF term_state.some THEN 1 ELSE 0)
    /\ Returned => (term_state.some <=> is_tty)

\* C3 witness: print_frames returned an error (the handler could not be
\* installed) in a run that had captured the terminal state, restored once.
C3_Witness ==
    /\ Returned
    /\ result = "Err"
    /\ term_state.some
    /\ restore_calls = 1

\* C4: after a run that called disable_echo ends, the terminal's state is the
\* one it had before the call, also when tcgetattr failed during setup
\* (stated for the runs in which every tcsetattr call took effect).
C4_EchoStateRestored ==
    (Returned /\ term_state.some /\ ~setattr_failed) => term = term0

\* The flag was cleared before the first sleep completed.
StoppedBeforeFirstSleep == stop_at.set /\ stop_at.i = 0

C6_CancelLeadsToOk ==
    /\ [](Animation /\ (pc = "teardown" \/ (Returned /\ result = "Ok")) =>
             handler_set /\ ~playing /\ stop_at.set)
    /\ (handler_set /\ ~playing) ~> (Returned /\ result = "Ok" /\ TeardownEmitted)

\* C6 witness: an animation cancelled after at least two frames has returned Ok.
C6_Witness ==
    /\ Animation
    /\ Returned
    /\ result = "Ok"
    /\ ~playing
    /\ printed >= 2
    /\ TeardownEmitted

\* Lines written by iteration k of the loop: the frame's lines, and the two
\* lines of the hint unless silent.
LinesPrintedBy(k) ==
    Len(escaped[(k % frame_count) + 1]) + (IF silent THEN 0 ELSE 2)

\* C7: on every iteration but the first, the cursor-up count equals the number
\* of lines the previous iteration printed, also when the frames differ in
\* line count.
C7_CursorUpMatchesPrevious ==
    \A n \in DOMAIN out :
       out[n].src = "up" => out[n].arg = LinesPrintedBy(out[n].iter - 1)

\* The entries of the output written by the given kinds of print.
OutOf(kinds) == SelectSeq(out, LAMBDA e : e.src \in kinds)

\* The lines of encoded frame f (1-based), each tagged with its position.
LinesOfFrame(f, iter) ==
    [j \in 1 .. Len(escaped[f]) |->
        [src |-> "line", text |-> escaped[f][j], iter |-> iter, arg |-> <<f, j>>]]

\* C14: with exactly one encoded frame, print_frames prints each of its lines
\* exactly once in order, never installs the interrupt handler, never prints
\* the hint or a cursor-up, and goes on to the teardown; print_frames can
\* return an error only when there is more than one frame.
C14_SingleFramePrintedOnce ==
    /\ frame_count = 1 =>
          /\ ~handler_set
          /\ pc \in {"setup", "single", "teardown", "returned"}
          /\ OutOf({"hint", "up"}) = <<>>
          /\ OutOf({"line"}) =
                (IF pc \in {"teardown", "returned"} THEN LinesOfFrame(1, 0) ELSE <<>>)
          /\ Returned => (result = "Ok" /\ TeardownEmitted)
    /\ result = "Err" => frame_count > 1

\* C14 witness: a single frame of two lines was printed, not silent, and
\* print_frames returned.
C14_Witness ==
    /\ frame_count = 1
    /\ Returned
    /\ ~silent
    /\ Len(OutOf({"line"})) = 2

\* What iteration k of the loop is to write besides the cursor-up: the lines
\* of frame k mod n in order, then the hint unless silent.
ExpectedIteration(k) ==
    LinesOfFrame((k % frame_count) + 1, k)
    \o (IF silent THEN <<>> ELSE <<[src |-> "hint", text |-> HINT, iter |-> k, arg |-> 0]>>)

RECURSIVE ShownUpTo(_)
ShownUpTo(k) == IF k = 0 THEN <<>> ELSE ShownUpTo(k - 1) \o ExpectedIteration(k - 1)

\* C16: in animation mode with n frames, iteration k of the loop prints the
\* lines of frame k mod n in line order, none omitted or repeated, so the
\* frames are shown from frame 0 on and wrap to frame 0 after frame n-1; the
\* hint follows each frame when not silent and is never printed when silent.
C16_FramesInOrderModulo ==
    Animation => OutOf({"line", "hint"}) = ShownUpTo(printed)

\* C16 witness: the loop has wrapped around: more frames printed than the
\* sequence holds, with frames of different line counts.
C16_Witness ==
    /\ Animation
    /\ printed > frame_count
    /\ Len(escaped[1]) # Len(escaped[2])
    /\ pc = "sleep"

\* Frames whose printing had begun when the flag was first cleared.
PrintedAtStop == IF stop_at.pc = "sleep" THEN stop_at.i + 1 ELSE stop_at.i

\* The flag reads made and the frames printed, by the loop's position: one
\* read per iteration started, made before that iteration's frame.
OneLoadPerIteration ==
    /\ pc = "check" => (loads = i /\ printed = i)
    /\ pc = "body" => (loads = i + 1 /\ printed = i)
    /\ pc = "sleep" => (loads = i + 1 /\ printed = i + 1)
    /\ (Animation /\ pc = "teardown") => (loads = i + 1 /\ printed = i)

\* Every frame begun is in the output with all its lines and its hint.
StartedFramesComplete ==
    \A k \in 0 .. printed - 1 :
        SelectSeq(out, LAMBDA e : e.src \in {"line", "hint"} /\ e.iter = k)
           = ExpectedIteration(k)

\* C19: the cancellation flag is read exactly once per loop iteration, before
\* the frame is printed; a frame whose printing has begun is printed
\* completely (its lines, the hint, then the sleep); after the flag has been
\* cleared at most one further frame starts printing.
C19_FlagReadOncePerIteration ==
    /\ [](Animation => (OneLoadPerIteration /\ StartedFramesComplete))
    /\ []((Animation /\ stop_at.set) => printed <= PrintedAtStop + 1)
    /\ [][(pc = "body" /\ pc' # "body") => (pc' = "sleep" /\ printed' = printed + 1)]_vars
    /\ [][(pc = "sleep" /\ pc' # "sleep") => (pc' = "check" /\ i' = i + 1)]_vars

\* C19 witness: the flag was cleared after the second iteration's flag read
\* and before its frame; that frame was printed, no other, and the loop ended.
C19_Witness ==
    /\ Animation
    /\ stop_at.set
    /\ stop_at.pc = "body"
    /\ stop_at.i = 1
    /\ Returned
    /\ printed = 2
    /\ loads = 3

(* ---------------------- claims: collection loop ----------------------- *)
\* The row-pair workers escape_frames spawns for frame f (1-based).
WorkersOf(f) == 0 .. ((max_y(frames[f]) \div 2) - 1)

\* How many results carrying index k the collection loop of frame f received.
TimesWritten(f, k) == Cardinality({n \in DOMAIN arrivals[f] : arrivals[f][n] = k})

\* Frame f's collection loop has ended with every worker's line stored.
CollectedAll(f) ==
    /\ Len(escaped[f]) = Cardinality(WorkersOf(f))
    /\ \A k \in WorkersOf(f) :
          /\ TimesWritten(f, k) = 1
          /\ escaped[f][k + 1] # EmptyString
    /\ Len(arrivals[f]) = Cardinality(WorkersOf(f))

\* C18: for each frame the collection loop of escape_frames terminates, and
\* only after every row-pair worker spawned for the frame has delivered its
\* result: when escape_frames moves to the next frame or returns, every slot
\* of the line vector has been written exactly once and none still holds the
\* initial empty string.
C18_CollectionCompletes ==
    /\ \A f \in 1 .. MaxFrames :
          (ef_pc = "collect" /\ fidx = f) ~> (Len(escaped) >= f)
    /\ <>(ef_pc = "done")
    /\ [](\A f \in 1 .. Len(escaped) : CollectedAll(f))
    /\ [][Len(escaped') > Len(escaped) =>
            /\ chan = <<>>
            /\ \A k \in WorkerIds :
                  workers[k] = (IF k \in WorkersOf(fidx) THEN "exited" ELSE "unspawned")]_vars
    /\ [](ef_pc # "panicked")

\* C18 witness: escape_frames returned two frames, the later of two row
\* pairs whose results arrived in reverse order.
C18_Witness ==
    /\ ef_pc = "done"
    /\ Len(escaped) = 2
    /\ arrivals[2] = <<1, 0>>

(* --------------------------- claims: scaling -------------------------- *)
\* scale_frames has returned its frames.
Scaled ==
    \/ main_pc \in {"escape", "print", "printing"}
    \/ main_pc = "exit" /\ main_result \in {"Ok", "Err:print"}

\* The frame is relatively wider than the box: ow / oh > bw / bh.
RelativelyWider(frame, b) == frame.width * b[2] > b[1] * frame.height

\* C11: for every frame size and every target box (w, h) computed by
\* scale_frames, the target dimensions chosen for the frame are never wider
\* than w nor taller than h, and at least one of them equals its bound
\* exactly: the width when the frame is relatively wider than the box, the
\* height otherwise.
C11_TargetFitsBox ==
    Scaled =>
       \A k \in DOMAIN decoded :
          /\ k \in DOMAIN targets
          /\ targets[k][1] <= box[1]
          /\ targets[k][2] <= box[2]
          /\ targets[k][1] >= 0 /\ targets[k][2] >= 0
          /\ IF RelativelyWider(decoded[k], box)
             THEN targets[k][1] = box[1]
             ELSE targets[k][2] = box[2]

\* C11 witness: two frames scaled into one box of positive size, the first
\* bound by the box's height and narrower than it, the second bound by its
\* width and lower than it.
C11_Witness ==
    /\ Scaled
    /\ Len(targets) = 2
    /\ box[1] > 0 /\ box[2] > 0
    /\ targets[1][2] = box[2] /\ targets[1][1] < box[1]
    /\ targets[2][1] = box[1] /\ targets[2][2] < box[2]

\* scale_frames has run, to its return or to a panic.
ScaleRan == main_pc \notin {"idle", "read", "decode", "scale"}

\* C17: the height of the target box used by scale_frames equals
\* (terminal rows - top-offset) * 2, top-offset being the value given by the
\* top-offset flag (stated for the terminals with at least as many rows as
\* either offset, where no subtraction can overflow).
C17_BoxHeightFromTopOffsetFlag ==
    (ScaleRan /\ TermSize[2] >= top_offset /\ TermSize[2] >= RESIZE_OFFSET_Y) =>
       box[2] = (TermSize[2] - top_offset) * 2

\* C20: for every terminal geometry scale_frames can obtain, from a
\* successful size query or from the 80 x 24 fallback, the box height
\* (rows - 8) * 2 is computed without underflow and the box has positive
\* width and height, also when the terminal reports fewer than 8 rows or
\* 0 x 0.
C20_BoxPositiveNoUnderflow ==
    ScaleRan =>
       /\ main_result # "panic"
       /\ box[2] = (TermSize[2] - 8) * 2
       /\ box[1] > 0
       /\ box[2] > 0

(* ------------------------- claims: the pipeline ----------------------- *)
\* decode_image has run.
DecodeRan == main_pc \notin {"idle", "read", "decode"} /\ main_result # "Err:read"

\* escape_frames has returned.
Escaped ==
    \/ main_pc \in {"print", "printing"}
    \/ main_pc = "exit" /\ main_result \in {"Ok", "Err:print"}

\* The bytes decode to an image of at least 2 x 2.
DecodableAndLargeEnough ==
    /\ input.valid
    /\ input.dims[1][1] >= 2
    /\ input.dims[1][2] >= 2

\* C12: for input not classified as GIF (unclassifiable input included),
\* decode_image returns exactly one frame, the image, when the image decodes
\* and is at least 2 wide and 2 high, and returns an error, no frame
\* produced, when either dimension is below 2 or the bytes cannot be decoded.
C12_StaticDecodeOneFrame ==
    (DecodeRan /\ input.format # "gif") =>
       IF DecodableAndLargeEnough
       THEN /\ Len(decoded) = 1
            /\ dimensions(decoded[1]) = input.dims[1]
            /\ main_result # "Err:decode"
       ELSE /\ decoded = <<>>
            /\ main_result = "Err:decode"

\* C12 witness: a static image of 2 x 2, the smallest accepted, decoded to
\* one frame.
C12_Witness ==
    /\ DecodeRan
    /\ input.format \in {"png", "other"}
    /\ input.dims = <<(<<2, 2>>)>>
    /\ Len(decoded) = 1
    /\ main_result # "Err:decode"

\* C13: every frame sequence flowing through the pipeline is non-empty: a
\* successful decode returns at least one frame (a GIF with zero frames is an
\* error), and scale_frames and escape_frames each return a sequence as long
\* as their input with the frames in the same order.
C13_SequencesNonEmptySameLength ==
    /\ (DecodeRan /\ main_result # "Err:decode") =>
          (Len(decoded) >= 1 /\ Len(decoded) = Len(input.dims))
    /\ (DecodeRan /\ input.format = "gif" /\ Len(input.dims) = 0) =>
          main_result = "Err:decode"
    /\ Scaled =>
          /\ Len(scaled) = Len(decoded)
          /\ \A k \in DOMAIN scaled :
                dimensions(scaled[k]) =
                   ResizeDims(decoded[k].width, decoded[k].height,
                              targets[k][1], targets[k][2])
    /\ Escaped =>
          /\ frames = scaled
          /\ Len(escaped) = Len(scaled)
          /\ Len(escaped) >= 1
          /\ \A k \in DOMAIN escaped : Len(escaped[k]) = max_y(scaled[k]) \div 2

\* C13 witness: a GIF of two frames of different sizes went through decoding,
\* scaling and encoding, two frames of different sizes at each stage.
C13_Witness ==
    /\ Escaped
    /\ Len(decoded) = 2
    /\ dimensions(decoded[1]) # dimensions(decoded[2])
    /\ dimensions(scaled[1]) # dimensions(scaled[2])
    /\ Len(escaped) = 2
    /\ Len(escaped[1]) # Len(escaped[2])

\* Nothing of print_frames has happened: no output, terminal untouched.
NothingPrinted ==
    /\ out = <<>>
    /\ pc = "idle"
    /\ term = term0
    /\ term_state = None
    /\ restore_calls = 0
    /\ ~handler_set

\* The order of the stages of main.
StageOrder ==
    {<<"read", "decode">>, <<"decode", "scale">>, <<"scale", "escape">>,
     <<"escape", "print">>, <<"print", "printing">>, <<"printing", "exit">>,
     <<"read", "exit">>, <<"decode", "exit">>, <<"scale", "exit">>}

\* C15: if reading the input or decoding it fails, the pipeline stops at that
\* stage: no later stage runs, the terminal echo state is not modified and
\* nothing, not even the cursor-hide, is written to standard output; more
\* generally nothing is written before every frame has been scaled and
\* encoded.
C15_FailureStopsPipeline ==
    /\ []((main_pc # "read" /\ ~input.readable) =>
             (main_pc = "exit" /\ main_result = "Err:read" /\ decoded = <<>>))
    /\ []((DecodeRan /\ input.readable /\ ~decode_image(input).ok) =>
             (main_pc = "exit" /\ main_result = "Err:decode"))
    /\ [](main_result \in {"Err:read", "Err:decode"} =>
             (NothingPrinted /\ scaled = <<>> /\ escaped = <<>> /\ ef_pc = "idle"))
    /\ [](~NothingPrinted =>
             (ef_pc = "done" /\ Len(decoded) >= 1 /\ Len(scaled) = Len(decoded)
                /\ Len(escaped) = Len(decoded)))
    /\ [][main_pc' # main_pc => <<main_pc, main_pc'>> \in StageOrder]_vars

\* C15 witness: on a terminal, an image that decodes but is too small made
\* main return the decode error.
C15_Witness ==
    /\ main_pc = "exit"
    /\ main_result = "Err:decode"
    /\ input.valid
    /\ is_tty
    /\ winsize.ok

=============================================================================
